---- MODULE Spec2Model ----
(***************************************************************************)
(* Bar retrieval and aggregation engine of rqalpha's BaseDataSource        *)
(* (rqalpha/data/base_data_source.py): the memoised per-instrument day bar *)
(* series, the exact-date lookup get_bar, the bounded window history_bars  *)
(* and the weekly / monthly resampling _resample_k_bars.                   *)
(***************************************************************************)
EXTENDS Integers, Sequences, FiniteSets, TLC

\* ------------------------------------------------------------------ bounds
\* Number of calendar days of the modelled calendar window.
MaxDays == 6
\* Longest day bar series a table holds.
MaxLen == 2
\* Largest bar_count a caller asks for.
MaxBarCount == 2
\* Threads querying the data source concurrently (SpecConc).
NumThreads == 2

\* ---------------------------------------------------------------- calendar
\* Dates are day-of-year ordinals of 2017 (1 = 2017-01-01, a Sunday).
MonthLengths == <<31, 28, 31, 30, 31, 30, 31, 31, 30, 31, 30, 31>>

RECURSIVE DaysBeforeMonth(_)
DaysBeforeMonth(m) ==
    IF m = 1 THEN 0 ELSE DaysBeforeMonth(m - 1) + MonthLengths[m - 1]

\* Days of the year before each month, and the month of each day of the year.
DaysBefore == [m \in 1..12 |-> DaysBeforeMonth(m)]

MonthTable ==
    [n \in 1..365 |->
        CHOOSE m \in 1..12 : DaysBefore[m] < n /\ n <= DaysBefore[m] + MonthLengths[m]]

MonthOf(n) == MonthTable[n]

DayOfMonth(n) == n - DaysBefore[MonthOf(n)]

\* Python's date.weekday(): Monday = 0 ... Sunday = 6.
Weekday(n) == (n + 5) % 7

\* The calendar window: it starts on Friday 2017-01-27 and runs into February.
Days == 27 .. (26 + MaxDays)
TradingDays == {n \in Days : Weekday(n) < 5}

\* utils.datetime_func.convert_date_to_int: the integer date key of a date.
convert_date_to_int(d) == 2017 * 10000 + MonthOf(d) * 100 + DayOfMonth(d)

\* utils.datetime_func.convert_int_to_datetime: the date an integer key names.
convert_int_to_datetime(k) == DaysBefore[(k % 10000) \div 100] + (k % 100)

\* ------------------------------------------------------------- instruments
INSTRUMENT_TYPE_MAP ==
    [t \in {"CS", "INDX", "Future", "ETF", "LOF", "FenjiA", "FenjiB", "FenjiMu"} |->
        CASE t = "CS" -> 0
          [] t = "INDX" -> 1
          [] t = "Future" -> 2
          [] OTHER -> 3]

Stock == [order_book_id |-> "000001.XSHE", type |-> "CS"]
Future == [order_book_id |-> "IF1703", type |-> "Future"]
\* An instrument whose type is outside INSTRUMENT_TYPE_MAP.
Bond == [order_book_id |-> "019539.XSHG", type |-> "Bond"]
Instruments == {Stock, Future, Bond}

\* ---------------------------------------------------------------- bar data
\* An optional series: None, or the record array of a table (dtype.names, rows).
None == [present |-> FALSE, names |-> <<>>, bars |-> <<>>]
Some(names, bars) == [present |-> TRUE, names |-> names, bars |-> bars]

StockFields == <<"datetime", "open", "close", "high", "low", "volume", "total_turnover">>
FutureFields == Append(StockFields, "settlement")

Volumes == {0, 100}

\* The day bar of date n with volume v: prices vary with the date.
DayBar(n, v) ==
    LET d == DayOfMonth(n)
        o == 10 + ((3 * d) % 7)
        c == 10 + ((5 * d) % 7)
        hi == (IF o > c THEN o ELSE c) + (d % 2)
        lo == (IF o < c THEN o ELSE c) - ((d + 1) % 2)
    IN [datetime |-> convert_date_to_int(n), open |-> o, close |-> c, high |-> hi,
        low |-> lo, volume |-> v, total_turnover |-> v * c]

WithSettlement(bar) ==
    [f \in DOMAIN bar \cup {"settlement"} |->
        IF f = "settlement" THEN bar.close ELSE bar[f]]

RECURSIVE SortedSeq(_)
SortedSeq(S) ==
    IF S = {} THEN <<>>
    ELSE LET m == CHOOSE x \in S : \A y \in S : x <= y
         IN <<m>> \o SortedSeq(S \ {m})

\* Every series a table may hold: ascending, unique dates, at most MaxLen bars.
SeriesSpace ==
    UNION {
        {[k \in 1..Len(SortedSeq(D)) |-> DayBar(SortedSeq(D)[k], vol[SortedSeq(D)[k]])] :
            vol \in [D -> Volumes]} :
        D \in {X \in SUBSET TradingDays : Cardinality(X) <= MaxLen}}

\* The four DayBarStore tables, by table index: each maps the order_book_ids it
\* knows to their series (stocks, indexes, futures, funds).
Tables(S) ==
    [i \in 0..3 |->
        IF i = 0 THEN [id \in {Stock.order_book_id} |-> Some(StockFields, S)]
        ELSE IF i = 2
        THEN [id \in {Future.order_book_id} |-> Some(FutureFields, [k \in 1..Len(S) |-> WithSettlement(S[k])])]
        ELSE [id \in {} |-> None]]

EmptyTables == [i \in 0..3 |-> [id \in {} |-> None]]

\* ------------------------------------------------------------------- state
VARIABLES
    day_bars,     \* self._day_bars: the tables (read-only)
    cacheAll,     \* lru_cache of _all_day_bars_of: instrument -> entry
    cacheFilt,    \* lru_cache of _filtered_day_bars: instrument -> entry
    reads,        \* number of DayBarStore.get_bars calls made, per instrument
    filters,      \* number of volume filters computed, per instrument
    result,       \* the call the (single) caller made last and what it returned
    th            \* the threads of the concurrent specification

vars == <<day_bars, cacheAll, cacheFilt, reads, filters, result, th>>

Miss == [hit |-> FALSE, val |-> None]
Hit(v) == [hit |-> TRUE, val |-> v]

NoFields == [kind |-> "none", names |-> <<>>]
Str(f) == [kind |-> "str", names |-> <<f>>]
List(fs) == [kind |-> "list", names |-> fs]

Idle ==
    [op |-> "idle", instrument |-> Stock, bar_count |-> 0, frequency |-> "",
     fields |-> NoFields, dt |-> 0, skip_suspended |-> FALSE,
     kind |-> "none", error |-> "", names |-> <<>>, rows |-> <<>>,
     window |-> <<>>, S |-> None, daily |-> None, fields_after |-> NoFields]

IdleThread == [pc |-> "idle", op |-> "", instrument |-> Stock, val |-> None, error |-> ""]

\* The memo state an operation reads and writes.
World == [cacheAll |-> cacheAll, cacheFilt |-> cacheFilt, reads |-> reads, filters |-> filters]

\* DayBarStore.get_bars(order_book_id, fields=None).
get_bars(i, order_book_id) ==
    IF order_book_id \in DOMAIN day_bars[i] THEN day_bars[i][order_book_id] ELSE None

KnownType(instrument) == instrument.type \in DOMAIN INSTRUMENT_TYPE_MAP
index_of(instrument) == INSTRUMENT_TYPE_MAP[instrument.type]

\* The body of _all_day_bars_of, run on a cache miss, and the store of its value.
AllBody(w, instrument) ==
    IF ~KnownType(instrument)
    THEN [w |-> w, status |-> "KeyError", val |-> None]
    ELSE LET v == get_bars(index_of(instrument), instrument.order_book_id)
         IN [w |-> [w EXCEPT !.cacheAll[instrument] = Hit(v),
                             !.reads[instrument] = @ + 1],
             status |-> "ok", val |-> v]

all_day_bars_of(w, instrument) ==
    IF w.cacheAll[instrument].hit
    THEN [w |-> w, status |-> "ok", val |-> w.cacheAll[instrument].val]
    ELSE AllBody(w, instrument)

\* Faulty variant: a mask that keeps the bars without volume.
VolumeMaskAll(bar) == bar.volume >= 0
\* bars[bars['volume'] > 0]
VolumeMask(bar) == bar.volume > 0
FilterVolume(bars) == SelectSeq(bars, VolumeMask)

\* The rest of the body of _filtered_day_bars once it holds the full series.
FilterBody(w, instrument, all) ==
    IF ~all.present
    THEN [w |-> [w EXCEPT !.cacheFilt[instrument] = Hit(None)],
          status |-> "ok", val |-> None]
    ELSE LET v == Some(all.names, FilterVolume(all.bars))
         IN [w |-> [w EXCEPT !.cacheFilt[instrument] = Hit(v),
                             !.filters[instrument] = @ + 1],
             status |-> "ok", val |-> v]

filtered_day_bars(w, instrument) ==
    IF w.cacheFilt[instrument].hit
    THEN [w |-> w, status |-> "ok", val |-> w.cacheFilt[instrument].val]
    ELSE LET a == all_day_bars_of(w, instrument)
         IN IF a.status # "ok" THEN a ELSE FilterBody(a.w, instrument, a.val)

\* numpy.searchsorted(a, v, side): bisection over positions lo..hi (0-based).
RECURSIVE Bisect(_, _, _, _, _)
Bisect(a, v, lo, hi, side) ==
    IF lo >= hi THEN lo
    ELSE LET mid == (lo + hi) \div 2
         IN IF (side = "left" /\ a[mid + 1] < v) \/ (side = "right" /\ a[mid + 1] <= v)
            THEN Bisect(a, v, mid + 1, hi, side)
            ELSE Bisect(a, v, lo, mid, side)

Datetimes(bars) == [k \in 1..Len(bars) |-> bars[k].datetime]
searchsorted(a, v, side) == Bisect(a, v, 0, Len(a), side)

\* Python's a[left:i] for 0 <= left, i <= len(a).
Slice(a, left, i) == SubSeq(a, left + 1, i)

\* Faulty variant: the exact lookup bisecting on the right side.
GetBarSideRight == "right"
\* bars['datetime'].searchsorted(dt): the default side
GetBarSide == "left"

get_bar(w, instrument, dt, frequency) ==
    IF frequency # "1d"
    THEN [w |-> w, kind |-> "error", error |-> "NotImplementedError", rows |-> <<>>, S |-> None]
    ELSE LET a == all_day_bars_of(w, instrument)
         IN IF a.status # "ok"
            THEN [w |-> a.w, kind |-> "error", error |-> a.status, rows |-> <<>>, S |-> None]
            ELSE IF ~a.val.present
            THEN [w |-> a.w, kind |-> "absent", error |-> "", rows |-> <<>>, S |-> None]
            ELSE LET bars == a.val.bars
                     key == convert_date_to_int(dt)
                     pos == searchsorted(Datetimes(bars), key, GetBarSide)
                 IN IF pos >= Len(bars) \/ bars[pos + 1].datetime # key
                    THEN [w |-> a.w, kind |-> "absent", error |-> "", rows |-> <<>>, S |-> a.val]
                    ELSE [w |-> a.w, kind |-> "bar", error |-> "", rows |-> <<bars[pos + 1]>>,
                          S |-> a.val]

\* _are_fields_valid(fields, valid_fields)
Contains(s, x) == \E k \in 1..Len(s) : s[k] = x

\* Faulty variant: a single name that is not validated.
StrFieldUnchecked(f, valid_fields) == TRUE
\* fields in valid_fields, for a string
StrFieldValid(f, valid_fields) == Contains(valid_fields, f)

are_fields_valid(fields, valid_fields) ==
    IF fields.kind = "none" THEN TRUE
    ELSE IF fields.kind = "str" THEN StrFieldValid(fields.names[1], valid_fields)
    ELSE \A k \in 1..Len(fields.names) : Contains(valid_fields, fields.names[k])

\* The aggregation of each field in _resample_k_bars.
handler ==
    [datetime |-> "last", open |-> "first", high |-> "max", low |-> "min",
     close |-> "last", volume |-> "sum", total_turnover |-> "sum"]

\* pandas: the label (right edge) of the resampling bucket a date falls in.
BucketLabel(frequency, n) ==
    IF frequency = "W-Fri"
    THEN n + ((4 - Weekday(n) + 7) % 7)
    ELSE DaysBefore[MonthOf(n)] + MonthLengths[MonthOf(n)]

\* pandas: resample makes one bin per period from the first index value to the last.
BinLabels(frequency, index) ==
    IF Len(index) = 0 THEN <<>>
    ELSE SortedSeq({l \in BucketLabel(frequency, index[1]) ..
                          BucketLabel(frequency, index[Len(index)]) :
                        BucketLabel(frequency, l) = l})

RECURSIVE SumOf(_)
SumOf(s) == IF Len(s) = 0 THEN 0 ELSE s[1] + SumOf(Tail(s))

MaxOf(s) == CHOOSE x \in {s[k] : k \in 1..Len(s)} : \A k \in 1..Len(s) : s[k] <= x
MinOf(s) == CHOOSE x \in {s[k] : k \in 1..Len(s)} : \A k \in 1..Len(s) : x <= s[k]

\* getattr(agg[field], how)() over the values of one bin; nan marks a NaN cell
\* (first, last, max and min of an empty bin are NaN, its sum is 0).
Aggregate(how, values) ==
    IF Len(values) = 0
    THEN [nan |-> (how # "sum"), v |-> 0]
    ELSE [nan |-> FALSE,
          v |-> CASE how = "first" -> values[1]
                  [] how = "last" -> values[Len(values)]
                  [] how = "max" -> MaxOf(values)
                  [] how = "min" -> MinOf(values)
                  [] OTHER -> SumOf(values)]

\* Faulty variant: every field aggregated as the last value of its bin.
HowOfLast(field) == "last"
\* handler[field]
HowOf(field) == handler[field]

\* The frame df built by the loop over fds: one row of cells per bin.
ResampledFrame(bars, fds, frequency) ==
    LET index == [k \in 1..Len(bars) |-> convert_int_to_datetime(bars[k].datetime)]
        labels == BinLabels(frequency, index)
        bin == [k \in 1..Len(bars) |-> BucketLabel(frequency, index[k])]
    IN [b \in 1..Len(labels) |->
           LET rows == SortedSeq({k \in 1..Len(bars) : bin[k] = labels[b]})
           IN [f \in {fds[k] : k \in 1..Len(fds)} |->
                  Aggregate(HowOf(f), [j \in 1..Len(rows) |-> bars[rows[j]][f]])]]

\* df.dropna() and df.to_records(index=False)
NoNaN(row) == \A f \in DOMAIN row : ~row[f].nan
ToRecord(row) == [f \in DOMAIN row |-> row[f].v]
DropNa(df) == SelectSeq(df, NoNaN)
ToRecords(df) == [k \in 1..Len(df) |-> ToRecord(df[k])]

\* _resample_k_bars(bars, fields, frequency). fds = fields aliases the caller's list, so
\* the append is seen by the caller (fields_after); a string is wrapped in a new list.
\* emptyRaises: whether this pandas raises TypeError for a frame without rows, whose
\* index is not datetime-like.
resample_k_bars(bars, fields, frequency, emptyRaises) ==
    IF fields.kind = "none"
    THEN [status |-> "TypeError", names |-> <<>>, bars |-> <<>>, fields_after |-> fields]
    ELSE LET fds == IF Contains(fields.names, "datetime") THEN fields.names
                    ELSE Append(fields.names, "datetime")
             after == IF fields.kind = "list" THEN List(fds) ELSE fields
         IN IF Len(bars) = 0 /\ emptyRaises
            THEN [status |-> "TypeError", names |-> <<>>, bars |-> <<>>, fields_after |-> after]
            ELSE IF \E k \in 1..Len(fds) : fds[k] \notin DOMAIN handler
            THEN [status |-> "KeyError", names |-> <<>>, bars |-> <<>>, fields_after |-> after]
            ELSE [status |-> "ok", names |-> fds,
                  bars |-> ToRecords(DropNa(ResampledFrame(bars, fds, frequency))),
                  fields_after |-> after]

\* Faulty variant: the filtered series for every instrument type.
UseFilteredAnyType(skip_suspended, instrument) == skip_suspended
\* history_bars: whether the window is taken from the filtered series.
UseFiltered(skip_suspended, instrument) == skip_suspended /\ instrument.type = "CS"

\* Faulty variant: the window boundary bisecting on the left side.
HistorySideLeft == "left"
\* bars['datetime'].searchsorted(dt, side='right')
HistorySide == "right"

\* Faulty variant: a window that always starts at the first bar.
WindowLeftZero(i, bar_count) == 0
\* left = i - bar_count if i >= bar_count else 0
WindowLeft(i, bar_count) == IF i >= bar_count THEN i - bar_count ELSE 0

\* bars[left:i][fields] (and bars[left:i] for fields None); numpy raises for a name
\* that is no field of the array.
Project(window, names, fields) ==
    IF fields.kind = "none"
    THEN [status |-> "ok", names |-> names, rows |-> window]
    ELSE IF \E j \in 1..Len(fields.names) : ~Contains(names, fields.names[j])
    THEN [status |-> "ValueError", names |-> <<>>, rows |-> <<>>]
    ELSE [status |-> "ok", names |-> fields.names,
          rows |-> [k \in 1..Len(window) |->
                       [f \in {fields.names[j] : j \in 1..Len(fields.names)} |-> window[k][f]]]]

Outcome(w, kind, error, names, rows, window, S, daily, after) ==
    [w |-> w, kind |-> kind, error |-> error, names |-> names, rows |-> rows,
     window |-> window, S |-> S, daily |-> daily, fields_after |-> after]

\* Faulty variant: minute bars let through the frequency test.
FrequencySupportedMinute(frequency) == frequency \in {"1d", "W", "M", "1m"}
\* frequency not in ['1d', "W", "M"] raises NotImplementedError
FrequencySupported(frequency) == frequency \in {"1d", "W", "M"}

\* history_bars. Beside the value returned, the outcome records the series the call
\* selected (daily), the series the window was cut from (S) and the window before
\* the projection.
history_bars(w, instrument, bar_count, frequency, fields, dt, skip_suspended, emptyRaises) ==
    IF ~FrequencySupported(frequency)
    THEN Outcome(w, "error", "NotImplementedError", <<>>, <<>>, <<>>, None, None, fields)
    ELSE
    LET sel == IF UseFiltered(skip_suspended, instrument)
               THEN filtered_day_bars(w, instrument)
               ELSE all_day_bars_of(w, instrument)
    IN IF sel.status # "ok"
       THEN Outcome(sel.w, "error", sel.status, <<>>, <<>>, <<>>, None, None, fields)
       ELSE IF ~sel.val.present \/ ~are_fields_valid(fields, sel.val.names)
       THEN Outcome(sel.w, "absent", "", <<>>, <<>>, <<>>, None, sel.val, fields)
       ELSE
       LET rs == IF frequency = "W"
                 THEN resample_k_bars(sel.val.bars, fields, "W-Fri", emptyRaises)
                 ELSE IF frequency = "M"
                 THEN resample_k_bars(sel.val.bars, fields, "M", emptyRaises)
                 ELSE [status |-> "ok", names |-> sel.val.names, bars |-> sel.val.bars,
                       fields_after |-> fields]
       IN IF rs.status # "ok"
          THEN Outcome(sel.w, "error", rs.status, <<>>, <<>>, <<>>, None, sel.val,
                       rs.fields_after)
          ELSE
          LET key == convert_date_to_int(dt)
              i == searchsorted(Datetimes(rs.bars), key, HistorySide)
              left == WindowLeft(i, bar_count)
              window == Slice(rs.bars, left, i)
              p == Project(window, rs.names, rs.fields_after)
          IN IF p.status # "ok"
             THEN Outcome(sel.w, "error", p.status, <<>>, <<>>, <<>>, None, sel.val,
                          rs.fields_after)
             ELSE Outcome(sel.w, "series", "", p.names, p.rows, window,
                          Some(rs.names, rs.bars), sel.val, rs.fields_after)

\* The field arguments callers pass: None, one name, or a list of names.
FieldChoices ==
    {NoFields, Str("close"), Str("settlement"), List(<<"close">>),
     List(<<"datetime", "open", "high", "low", "close", "volume", "total_turnover">>),
     List(<<"volume", "limit_up">>)}

Frequencies == {"1d", "W", "M", "1m"}

Init ==
    /\ day_bars \in {Tables(S) : S \in SeriesSpace} \cup {EmptyTables}
    /\ cacheAll = [x \in Instruments |-> Miss]
    /\ cacheFilt = [x \in Instruments |-> Miss]
    /\ reads = [x \in Instruments |-> 0]
    /\ filters = [x \in Instruments |-> 0]
    /\ result = Idle
    /\ th = [t \in 1..NumThreads |-> IdleThread]

Commit(w) ==
    /\ cacheAll' = w.cacheAll
    /\ cacheFilt' = w.cacheFilt
    /\ reads' = w.reads
    /\ filters' = w.filters

GetBar(instrument, dt, frequency) ==
    /\ result.op = "idle"
    /\ \E r \in {get_bar(World, instrument, dt, frequency)} :
          /\ Commit(r.w)
          /\ result' = [Idle EXCEPT !.op = "get_bar", !.instrument = instrument,
                                    !.frequency = frequency, !.dt = dt,
                                    !.kind = r.kind, !.error = r.error,
                                    !.names = r.S.names, !.rows = r.rows,
                                    !.window = r.rows, !.S = r.S, !.daily = r.S]
    /\ UNCHANGED <<day_bars, th>>

\* What pandas does with a frame without rows (its index is not datetime-like) is
\* in question, so a call that resamples an empty series has both outcomes: the
\* TypeError and the empty resampled series.
HistoryBars(instrument, bar_count, frequency, fields, dt, skip_suspended) ==
    /\ result.op = "idle"
    /\ \E r1 \in {history_bars(World, instrument, bar_count, frequency, fields, dt,
                               skip_suspended, TRUE)} :
       \E r \in (IF r1.error = "TypeError" /\ r1.daily.present /\ Len(r1.daily.bars) = 0
                 THEN {r1, history_bars(World, instrument, bar_count, frequency, fields,
                                        dt, skip_suspended, FALSE)}
                 ELSE {r1}) :
          /\ Commit(r.w)
          /\ result' = [Idle EXCEPT !.op = "history_bars", !.instrument = instrument,
                                    !.bar_count = bar_count, !.frequency = frequency,
                                    !.fields = fields, !.dt = dt,
                                    !.skip_suspended = skip_suspended,
                                    !.kind = r.kind, !.error = r.error,
                                    !.names = r.names, !.rows = r.rows,
                                    !.window = r.window, !.S = r.S, !.daily = r.daily,
                                    !.fields_after = r.fields_after]
    /\ UNCHANGED <<day_bars, th>>

\* The caller takes the value returned and is ready for its next query.
Return ==
    /\ result.op # "idle"
    /\ result' = Idle
    /\ UNCHANGED <<day_bars, cacheAll, cacheFilt, reads, filters, th>>

\* The instruments of a mapped type, and those whose type is not mapped.
Classified == {x \in Instruments : KnownType(x)}
Unclassified == Instruments \ Classified
FirstDate == CHOOSE d \in TradingDays : \A e \in TradingDays : d <= e

Next ==
    \/ \E x \in Classified, dt \in TradingDays, f \in {"1d", "W"} : GetBar(x, dt, f)
    \/ \E x \in Unclassified, f \in {"1d", "W"} : GetBar(x, FirstDate, f)
    \/ \E x \in Classified, n \in 1..MaxBarCount, f \in Frequencies, fs \in FieldChoices,
          dt \in TradingDays, skip \in BOOLEAN :
            HistoryBars(x, n, f, fs, dt, skip)
    \/ \E x \in Unclassified, f \in Frequencies, skip \in BOOLEAN :
            HistoryBars(x, 1, f, Str("close"), FirstDate, skip)
    \/ Return

Spec == Init /\ [][Next]_vars

\* ------------------------------------------------- concurrent first access
\* lru_cache looks the key up, and on a miss runs the wrapped body without holding
\* any lock and then stores its value: another thread may look the same key up in
\* between. Each action below is one such step of one thread.
Threads == 1..NumThreads

Goto(t, pc, val, error) ==
    th' = [th EXCEPT ![t].pc = pc, ![t].val = val, ![t].error = error]

\* A thread calls _all_day_bars_of(x): the cache lookup.
CallAll(t, x) ==
    /\ th[t].pc = "idle"
    /\ th' = [th EXCEPT ![t] =
                 IF cacheAll[x].hit
                 THEN [pc |-> "done", op |-> "all", instrument |-> x,
                       val |-> cacheAll[x].val, error |-> ""]
                 ELSE [pc |-> "all_body", op |-> "all", instrument |-> x,
                       val |-> None, error |-> ""]]
    /\ UNCHANGED <<day_bars, cacheAll, cacheFilt, reads, filters, result>>

\* The body of _all_day_bars_of after a miss: the table read, and the store.
RunAllBody(t) ==
    /\ th[t].pc = "all_body"
    /\ \E r \in {AllBody(World, th[t].instrument)} :
          /\ Commit(r.w)
          /\ Goto(t, "done", r.val, IF r.status = "ok" THEN "" ELSE r.status)
    /\ UNCHANGED <<day_bars, result>>

\* A thread calls _filtered_day_bars(x): the cache lookup.
CallFiltered(t, x) ==
    /\ th[t].pc = "idle"
    /\ th' = [th EXCEPT ![t] =
                 IF cacheFilt[x].hit
                 THEN [pc |-> "done", op |-> "filtered", instrument |-> x,
                       val |-> cacheFilt[x].val, error |-> ""]
                 ELSE [pc |-> "filt_body", op |-> "filtered", instrument |-> x,
                       val |-> None, error |-> ""]]
    /\ UNCHANGED <<day_bars, cacheAll, cacheFilt, reads, filters, result>>

\* The body of _filtered_day_bars calls _all_day_bars_of: its cache lookup.
FiltCallAll(t) ==
    /\ th[t].pc = "filt_body"
    /\ IF cacheAll[th[t].instrument].hit
       THEN Goto(t, "filt_filter", cacheAll[th[t].instrument].val, "")
       ELSE Goto(t, "filt_all_body", None, "")
    /\ UNCHANGED <<day_bars, cacheAll, cacheFilt, reads, filters, result>>

\* The nested body of _all_day_bars_of: the table read, and the store.
FiltRunAllBody(t) ==
    /\ th[t].pc = "filt_all_body"
    /\ \E r \in {AllBody(World, th[t].instrument)} :
          /\ Commit(r.w)
          /\ IF r.status = "ok"
             THEN Goto(t, "filt_filter", r.val, "")
             ELSE Goto(t, "done", None, r.status)
    /\ UNCHANGED <<day_bars, result>>

\* The rest of the body of _filtered_day_bars: the filter, and the store.
FiltFilter(t) ==
    /\ th[t].pc = "filt_filter"
    /\ \E r \in {FilterBody(World, th[t].instrument, th[t].val)} :
          /\ Commit(r.w)
          /\ Goto(t, "done", r.val, "")
    /\ UNCHANGED <<day_bars, result>>

\* The thread takes the value returned and is ready for its next call.
ThreadReturn(t) ==
    /\ th[t].pc = "done"
    /\ th' = [th EXCEPT ![t] = IdleThread]
    /\ UNCHANGED <<day_bars, cacheAll, cacheFilt, reads, filters, result>>

NextConc ==
    \/ \E t \in Threads, x \in Instruments : CallAll(t, x)
    \/ \E t \in Threads : RunAllBody(t)
    \/ \E t \in Threads, x \in Instruments : CallFiltered(t, x)
    \/ \E t \in Threads : FiltCallAll(t)
    \/ \E t \in Threads : FiltRunAllBody(t)
    \/ \E t \in Threads : FiltFilter(t)
    \/ \E t \in Threads : ThreadReturn(t)

SpecConc == Init /\ [][NextConc]_vars

\* ------------------------------------------------------------------ claims
\* The series a table holds for an instrument of a mapped type (the full series).
TableSeries(x) ==
    LET table == day_bars[INSTRUMENT_TYPE_MAP[x.type]]
    IN IF x.order_book_id \in DOMAIN table THEN table[x.order_book_id] ELSE None
DateOf(bar) == convert_int_to_datetime(bar.datetime)
IsHistory == result.op = "history_bars"
ReturnedSeries == IsHistory /\ result.kind = "series"
Min2(a, b) == IF a < b THEN a ELSE b
Max2(a, b) == IF a > b THEN a ELSE b

\* f is the subsequence of a made of the records with volume > 0, in a's order
\* (a is ascending with unique dates).
IsTradedSubsequence(f, a) ==
    /\ \A j \in 1..Len(f) : f[j].volume > 0 /\ \E k \in 1..Len(a) : a[k] = f[j]
    /\ \A k \in 1..Len(a) : a[k].volume > 0 => \E j \in 1..Len(f) : f[j] = a[k]
    /\ \A i, j \in 1..Len(f) : i < j => f[i].datetime < f[j].datetime
    /\ Len(f) = Cardinality({k \in 1..Len(a) : a[k].volume > 0})

\* C1: a history_bars call that returns a series returns at most bar_count records,
\* and the date of every record returned is not after as_of_date.
C1_WindowBounded ==
    ReturnedSeries =>
        /\ Len(result.rows) <= result.bar_count
        /\ Len(result.window) = Len(result.rows)
        /\ \A k \in 1..Len(result.window) : DateOf(result.window[k]) <= result.dt

C1_Witness ==
    /\ ReturnedSeries
    /\ Len(result.rows) = result.bar_count
    /\ Len(result.S.bars) > result.bar_count
    /\ \E k \in 1..Len(result.S.bars) : DateOf(result.S.bars[k]) > result.dt

\* C2: with i the number of records of the series S (after selection and resampling)
\* not after as_of_date, the window returned is the records of S at positions
\* [max(0, i - bar_count), i), in order, each projected on the fields returned; a
\* Daily call on an instrument of a mapped type never fails.
C2_WindowIsLastRecords ==
    /\ ReturnedSeries =>
          LET S == result.S.bars
              i == Cardinality({k \in 1..Len(S) : DateOf(S[k]) <= result.dt})
              lo == Max2(0, i - result.bar_count)
          IN /\ Len(result.rows) = Min2(result.bar_count, i)
             /\ result.window = [k \in 1..(i - lo) |-> S[lo + k]]
             /\ \A k \in 1..Len(result.rows) :
                    \A j \in 1..Len(result.names) :
                        result.rows[k][result.names[j]] = S[lo + k][result.names[j]]
    /\ (IsHistory /\ result.frequency = "1d" /\ KnownType(result.instrument)) =>
          result.kind \in {"series", "absent"}

C2_Witness ==
    /\ ReturnedSeries
    /\ Len(result.rows) = 1
    /\ result.bar_count = 2
    /\ Len(result.S.bars) = 2

\* C3: per instrument the table is read at most once and the volume filter computed
\* at most once, whatever the interleaving of the threads' calls, and two calls of
\* the same function for the same instrument return the same series.
C3_ComputedOnce ==
    /\ \A x \in Instruments : reads[x] <= 1 /\ filters[x] <= 1
    /\ \A t, u \in Threads :
          (th[t].pc = "done" /\ th[u].pc = "done" /\ th[t].op = th[u].op
                /\ th[t].instrument = th[u].instrument)
              => th[t].val = th[u].val

\* C4: the filtered series is the subsequence of the full series with volume > 0,
\* in order; the filtered series of an absent full series is absent.
C4_FilteredIsTradedSubsequence ==
    \A x \in Instruments :
        cacheFilt[x].hit =>
            /\ cacheAll[x].hit
            /\ cacheAll[x].val = TableSeries(x)
            /\ cacheFilt[x].val.present = cacheAll[x].val.present
            /\ cacheFilt[x].val.names = cacheAll[x].val.names
            /\ IsTradedSubsequence(cacheFilt[x].val.bars, cacheAll[x].val.bars)

C4_Witness ==
    /\ cacheFilt[Stock].hit
    /\ \E k \in 1..Len(cacheAll[Stock].val.bars) : cacheAll[Stock].val.bars[k].volume = 0
    /\ Len(cacheFilt[Stock].val.bars) > 0

\* C5: get_bar(instrument, d, Daily) returns the record of the full (unfiltered)
\* series dated d when there is one, and Absent otherwise.
C5_GetBarExact ==
    (result.op = "get_bar" /\ result.frequency = "1d" /\ KnownType(result.instrument)) =>
        LET full == TableSeries(result.instrument)
            at == {k \in 1..Len(full.bars) : DateOf(full.bars[k]) = result.dt}
        IN IF full.present /\ at # {}
           THEN /\ result.kind = "bar"
                /\ \E k \in at : result.rows = <<full.bars[k]>>
           ELSE result.kind = "absent" /\ result.rows = <<>>

C5_Witness ==
    /\ result.op = "get_bar"
    /\ result.kind = "bar"
    /\ result.rows[1].volume = 0
    /\ DateOf(result.rows[1]) = result.dt

\* C6: the records history_bars returns carry exactly the requested fields: the full
\* schema for fields None (at every supported frequency), and otherwise just the
\* names asked for, without the datetime added for the resampling. Stated for a
\* selected series that holds bars.
C6_ExactFields ==
    /\ (ReturnedSeries /\ Len(result.daily.bars) > 0) =>
          result.names = IF result.fields.kind = "none" THEN result.daily.names
                         ELSE result.fields.names
    /\ (IsHistory /\ FrequencySupported(result.frequency) /\ result.fields.kind = "none"
            /\ result.daily.present /\ Len(result.daily.bars) > 0)
          => (result.kind = "series" /\ result.names = result.daily.names)

\* Two dates fall in the same bucket: the same Friday-ended week (no Friday from
\* the earlier date up to the day before the later one) or the same month.
SameBucket(frequency, a, b) ==
    IF frequency = "W"
    THEN \A d \in Min2(a, b) .. (Max2(a, b) - 1) : Weekday(d) # 4
    ELSE MonthOf(a) = MonthOf(b)

RECURSIVE SumOver(_, _, _)
SumOver(bars, K, f) ==
    IF K = {} THEN 0
    ELSE LET k == CHOOSE k \in K : TRUE IN bars[k][f] + SumOver(bars, K \ {k}, f)

\* The bar R aggregates exactly the daily bars D[k], k in K (K not empty).
IsBucketBar(R, D, K, names) ==
    LET first == CHOOSE k \in K : \A j \in K : k <= j
        last == CHOOSE k \in K : \A j \in K : j <= k
        Has(f) == Contains(names, f)
    IN /\ R.datetime = D[last].datetime
       /\ Has("open") => R.open = D[first].open
       /\ Has("close") => R.close = D[last].close
       /\ Has("high") => (\A k \in K : D[k].high <= R.high) /\ (\E k \in K : D[k].high = R.high)
       /\ Has("low") => (\A k \in K : R.low <= D[k].low) /\ (\E k \in K : D[k].low = R.low)
       /\ Has("volume") => R.volume = SumOver(D, K, "volume")
       /\ Has("total_turnover") => R.total_turnover = SumOver(D, K, "total_turnover")

C8_SeriesSelection ==
    (IsHistory /\ FrequencySupported(result.frequency) /\ KnownType(result.instrument)) =>
        LET full == TableSeries(result.instrument)
        IN /\ ~full.present => result.kind = "absent"
           /\ result.kind = "series" =>
                 IF result.skip_suspended /\ result.instrument.type = "CS"
                 THEN IsTradedSubsequence(result.daily.bars, full.bars)
                 ELSE result.daily.bars = full.bars

C8_Witness ==
    /\ ReturnedSeries
    /\ result.skip_suspended
    /\ result.instrument = Future
    /\ result.frequency = "1d"
    /\ \E k \in 1..Len(result.window) : result.window[k].volume = 0

\* C9: a get_bar call with a frequency other than Daily and a history_bars call with
\* a frequency outside Daily, Weekly, Monthly fail with NotImplementedError (the
\* unsupported-frequency error) and leave both caches and the read counts unchanged.
C9_UnsupportedFrequency ==
    [][((result'.op = "get_bar" /\ result'.frequency # "1d")
            \/ (result'.op = "history_bars" /\ result'.frequency \notin {"1d", "W", "M"}))
        => /\ result'.kind = "error"
           /\ result'.error = "NotImplementedError"
           /\ UNCHANGED <<cacheAll, cacheFilt, reads, filters>>]_vars

C9_Witness ==
    /\ IsHistory
    /\ result.frequency = "1m"
    /\ result.error = "NotImplementedError"
    /\ result.instrument = Stock
    /\ TableSeries(Stock).present
    /\ ~cacheAll[Stock].hit
    /\ reads[Stock] = 0

\* C10: on a present series, history_bars returns Absent when the fields (one name
\* or a list) name anything outside the series' schema, and is not turned down by
\* the field validation otherwise.
C10_InvalidFieldsAbsent ==
    (IsHistory /\ FrequencySupported(result.frequency) /\ KnownType(result.instrument)
        /\ TableSeries(result.instrument).present) =>
        LET schema == TableSeries(result.instrument).names
            unknown == {j \in 1..Len(result.fields.names) :
                            \A k \in 1..Len(schema) : schema[k] # result.fields.names[j]}
        IN IF unknown # {}
           THEN result.kind = "absent" /\ result.rows = <<>>
           ELSE result.kind # "absent"

C10_Witness ==
    /\ IsHistory
    /\ result.kind = "absent"
    /\ TableSeries(result.instrument).present
    /\ result.fields = List(<<"volume", "limit_up">>)
    /\ result.frequency = "W"
====
